---------------------------- MODULE Spec2Model ----------------------------
(***************************************************************************)
(* The Truth Report feed generator (generate_feed.py) as a state machine.  *)
(*                                                                         *)
(* Text is modelled as a sequence of Unicode code points, so that the      *)
(* operations the program performs on text (lexicographic comparison in    *)
(* sorted(), UTF-8 encoding and MD5 hashing in generate_guid, f-string     *)
(* concatenation, str() of an integer) are computed rather than assumed.   *)
(***************************************************************************)
EXTENDS Integers, Sequences, FiniteSets, TLC

(***************************************************************************)
(* Program constants: the PODCAST dictionary and the literal strings.      *)
(***************************************************************************)

\* "The Truth Report"
PODCAST_title ==
  <<84, 104, 101, 32, 84, 114, 117, 116, 104, 32, 82, 101, 112, 111, 114, 116>>

\* "AI-produced investigative journalism exposing underreported stories. Hosted by Alex Truth and Maya Clarity. Researched by Aurora (Gemini), scripted and produced by Claudia (Claude). A JackKnifeAI production."
PODCAST_description ==
  <<65, 73, 45, 112, 114, 111, 100, 117, 99, 101, 100, 32, 105, 110, 118, 101, 115, 116, 105,
    103, 97, 116, 105, 118, 101, 32, 106, 111, 117, 114, 110, 97, 108, 105, 115, 109, 32, 101,
    120, 112, 111, 115, 105, 110, 103, 32, 117, 110, 100, 101, 114, 114, 101, 112, 111, 114,
    116, 101, 100, 32, 115, 116, 111, 114, 105, 101, 115, 46, 32, 72, 111, 115, 116, 101, 100,
    32, 98, 121, 32, 65, 108, 101, 120, 32, 84, 114, 117, 116, 104, 32, 97, 110, 100, 32, 77,
    97, 121, 97, 32, 67, 108, 97, 114, 105, 116, 121, 46, 32, 82, 101, 115, 101, 97, 114, 99,
    104, 101, 100, 32, 98, 121, 32, 65, 117, 114, 111, 114, 97, 32, 40, 71, 101, 109, 105, 110,
    105, 41, 44, 32, 115, 99, 114, 105, 112, 116, 101, 100, 32, 97, 110, 100, 32, 112, 114,
    111, 100, 117, 99, 101, 100, 32, 98, 121, 32, 67, 108, 97, 117, 100, 105, 97, 32, 40, 67,
    108, 97, 117, 100, 101, 41, 46, 32, 65, 32, 74, 97, 99, 107, 75, 110, 105, 102, 101, 65,
    73, 32, 112, 114, 111, 100, 117, 99, 116, 105, 111, 110, 46>>

\* "JackKnifeAI"
PODCAST_author ==
  <<74, 97, 99, 107, 75, 110, 105, 102, 101, 65, 73>>

\* "jackknifeai@gmail.com"
PODCAST_email ==
  <<106, 97, 99, 107, 107, 110, 105, 102, 101, 97, 105, 64, 103, 109, 97, 105, 108, 46, 99,
    111, 109>>

\* "https://jackknifeai.github.io/truth-report-podcast"
PODCAST_website ==
  <<104, 116, 116, 112, 115, 58, 47, 47, 106, 97, 99, 107, 107, 110, 105, 102, 101, 97, 105,
    46, 103, 105, 116, 104, 117, 98, 46, 105, 111, 47, 116, 114, 117, 116, 104, 45, 114, 101,
    112, 111, 114, 116, 45, 112, 111, 100, 99, 97, 115, 116>>

\* "en"
PODCAST_language ==
  <<101, 110>>

\* "News"
PODCAST_category ==
  <<78, 101, 119, 115>>

\* "News Commentary"
PODCAST_subcategory ==
  <<78, 101, 119, 115, 32, 67, 111, 109, 109, 101, 110, 116, 97, 114, 121>>

\* "https://jackknifeai.github.io/truth-report-podcast/cover.png"
PODCAST_image ==
  <<104, 116, 116, 112, 115, 58, 47, 47, 106, 97, 99, 107, 107, 110, 105, 102, 101, 97, 105,
    46, 103, 105, 116, 104, 117, 98, 46, 105, 111, 47, 116, 114, 117, 116, 104, 45, 114, 101,
    112, 111, 114, 116, 45, 112, 111, 100, 99, 97, 115, 116, 47, 99, 111, 118, 101, 114, 46,
    112, 110, 103>>

\* "https://jackknifeai.github.io/truth-report-podcast"
PODCAST_base_url ==
  <<104, 116, 116, 112, 115, 58, 47, 47, 106, 97, 99, 107, 107, 110, 105, 102, 101, 97, 105,
    46, 103, 105, 116, 104, 117, 98, 46, 105, 111, 47, 116, 114, 117, 116, 104, 45, 114, 101,
    112, 111, 114, 116, 45, 112, 111, 100, 99, 97, 115, 116>>

\* "no"
PODCAST_explicit ==
  <<110, 111>>

PODCAST ==
  [title |-> PODCAST_title, description |-> PODCAST_description,
   author |-> PODCAST_author, email |-> PODCAST_email,
   website |-> PODCAST_website, language |-> PODCAST_language,
   category |-> PODCAST_category, subcategory |-> PODCAST_subcategory,
   image |-> PODCAST_image, base_url |-> PODCAST_base_url,
   explicit |-> PODCAST_explicit]

\* "episodes"
EPISODES_DIR ==
  <<101, 112, 105, 115, 111, 100, 101, 115>>

\* "/"
PathSep ==
  <<47>>

\* "WARNING: "
WarningPrefix ==
  <<87, 65, 82, 78, 73, 78, 71, 58, 32>>

\* " not found, skipping"
WarningSuffix ==
  <<32, 110, 111, 116, 32, 102, 111, 117, 110, 100, 44, 32, 115, 107, 105, 112, 112, 105, 110,
    103>>

\* "No episodes found in episodes.json!"
NoEpisodesLine ==
  <<78, 111, 32, 101, 112, 105, 115, 111, 100, 101, 115, 32, 102, 111, 117, 110, 100, 32, 105,
    110, 32, 101, 112, 105, 115, 111, 100, 101, 115, 46, 106, 115, 111, 110, 33>>

\* "Generated feed.xml with "
SummaryPrefix ==
  <<71, 101, 110, 101, 114, 97, 116, 101, 100, 32, 102, 101, 101, 100, 46, 120, 109, 108, 32,
    119, 105, 116, 104, 32>>

\* " episodes"
SummarySuffix ==
  <<32, 101, 112, 105, 115, 111, 100, 101, 115>>

\* "Feed URL: "
FeedUrlPrefix ==
  <<70, 101, 101, 100, 32, 85, 82, 76, 58, 32>>

\* "/feed.xml"
FeedXmlSuffix ==
  <<47, 102, 101, 101, 100, 46, 120, 109, 108>>

\* "/episodes/"
EpisodesUrlPart ==
  <<47, 101, 112, 105, 115, 111, 100, 101, 115, 47>>

\* "audio/mpeg"
AudioMpeg ==
  <<97, 117, 100, 105, 111, 47, 109, 112, 101, 103>>

\* "application/rss+xml"
RssXmlType ==
  <<97, 112, 112, 108, 105, 99, 97, 116, 105, 111, 110, 47, 114, 115, 115, 43, 120, 109, 108>>

\* "self"
RelSelf ==
  <<115, 101, 108, 102>>

\* "2.0"
RssVersion ==
  <<50, 46, 48>>

\* "http://www.itunes.com/dtds/podcast-1.0.dtd"
XmlnsItunes ==
  <<104, 116, 116, 112, 58, 47, 47, 119, 119, 119, 46, 105, 116, 117, 110, 101, 115, 46, 99,
    111, 109, 47, 100, 116, 100, 115, 47, 112, 111, 100, 99, 97, 115, 116, 45, 49, 46, 48, 46,
    100, 116, 100>>

\* "http://purl.org/rss/1.0/modules/content/"
XmlnsContent ==
  <<104, 116, 116, 112, 58, 47, 47, 112, 117, 114, 108, 46, 111, 114, 103, 47, 114, 115, 115,
    47, 49, 46, 48, 47, 109, 111, 100, 117, 108, 101, 115, 47, 99, 111, 110, 116, 101, 110,
    116, 47>>

\* "http://www.w3.org/2005/Atom"
XmlnsAtom ==
  <<104, 116, 116, 112, 58, 47, 47, 119, 119, 119, 46, 119, 51, 46, 111, 114, 103, 47, 50, 48,
    48, 53, 47, 65, 116, 111, 109>>

\* "0123456789abcdef"
HexDigits ==
  <<48, 49, 50, 51, 52, 53, 54, 55, 56, 57, 97, 98, 99, 100, 101, 102>>

\* "0123456789"
DecDigits ==
  <<48, 49, 50, 51, 52, 53, 54, 55, 56, 57>>

\* " +0000"
ClockSuffix ==
  <<32, 43, 48, 48, 48, 48>>


(***************************************************************************)
(* The input corpus: the text values the records of episodes.json and the  *)
(* files of episodes/ are drawn from.                                      *)
(***************************************************************************)

\* "a.mp3"
FileA ==
  <<97, 46, 109, 112, 51>>

\* "b.mp3"
FileB ==
  <<98, 46, 109, 112, 51>>

\* "TEXTCOLLBYfGiJUETHQ4hAcKSMd5zYpgqf1YRDhkmxHkhPWptrkoyz28wnI9V0aHeAuaKnak"
CollA ==
  <<84, 69, 88, 84, 67, 79, 76, 76, 66, 89, 102, 71, 105, 74, 85, 69, 84, 72, 81, 52, 104, 65,
    99, 75, 83, 77, 100, 53, 122, 89, 112, 103, 113, 102, 49, 89, 82, 68, 104, 107, 109, 120,
    72, 107, 104, 80, 87, 112, 116, 114, 107, 111, 121, 122, 50, 56, 119, 110, 73, 57, 86, 48,
    97, 72, 101, 65, 117, 97, 75, 110, 97, 107>>

\* "TEXTCOLLBYfGiJUETHQ4hEcKSMd5zYpgqf1YRDhkmxHkhPWptrkoyz28wnI9V0aHeAuaKnak"
CollB ==
  <<84, 69, 88, 84, 67, 79, 76, 76, 66, 89, 102, 71, 105, 74, 85, 69, 84, 72, 81, 52, 104, 69,
    99, 75, 83, 77, 100, 53, 122, 89, 112, 103, 113, 102, 49, 89, 82, 68, 104, 107, 109, 120,
    72, 107, 104, 80, 87, 112, 116, 114, 107, 111, 121, 122, 50, 56, 119, 110, 73, 57, 86, 48,
    97, 72, 101, 65, 117, 97, 75, 110, 97, 107>>

\* "Pilot"
TitlePilot ==
  <<80, 105, 108, 111, 116>>

\* "Other"
TitleOther ==
  <<79, 116, 104, 101, 114>>

\* "notes"
DescText ==
  <<110, 111, 116, 101, 115>>

\* "12:34"
DurationText ==
  <<49, 50, 58, 51, 52>>

\* "Wed, 01 Jan 2025 00:00:00 +0000"
DateWed ==
  <<87, 101, 100, 44, 32, 48, 49, 32, 74, 97, 110, 32, 50, 48, 50, 53, 32, 48, 48, 58, 48, 48,
    58, 48, 48, 32, 43, 48, 48, 48, 48>>

\* "Thu, 02 Jan 2025 00:00:00 +0000"
DateThu ==
  <<84, 104, 117, 44, 32, 48, 50, 32, 74, 97, 110, 32, 50, 48, 50, 53, 32, 48, 48, 58, 48, 48,
    58, 48, 48, 32, 43, 48, 48, 48, 48>>

\* "Fri, 06 Nov 2026 12:00:"
ClockPrefix ==
  <<70, 114, 105, 44, 32, 48, 54, 32, 78, 111, 118, 32, 50, 48, 50, 54, 32, 49, 50, 58, 48, 48,
    58>>

\* "Old"
OldTitle ==
  <<79, 108, 100>>


(***************************************************************************)
(* MD5 (RFC 1321), as hashlib.md5 computes it.  A 32-bit word is a pair    *)
(* <<hi, lo>> of 16-bit halves, so that no intermediate value leaves the   *)
(* range of the integers the model checker can represent.                  *)
(***************************************************************************)

\* K[i] = floor(2^32 * abs(sin(i + 1))), i = 0..63, as <<hi, lo>>
md5_K ==
  <<<<55146, 42104>>, <<59591, 46934>>, <<9248, 28891>>, <<49597, 52974>>,
     <<62844, 4015>>, <<18311, 50730>>, <<43056, 17939>>, <<64838, 38145>>,
     <<27008, 39128>>, <<35652, 63407>>, <<65535, 23473>>, <<35164, 55230>>,
     <<27536, 4386>>, <<64920, 29075>>, <<42617, 17294>>, <<18868, 2081>>,
     <<63006, 9570>>, <<49216, 45888>>, <<9822, 23121>>, <<59830, 51114>>,
     <<54831, 4189>>, <<580, 5203>>, <<55457, 59009>>, <<59347, 64456>>,
     <<8673, 52710>>, <<49975, 2006>>, <<62677, 3463>>, <<17754, 5357>>,
     <<43491, 59653>>, <<64751, 41976>>, <<26479, 729>>, <<36138, 19594>>,
     <<65530, 14658>>, <<34673, 63105>>, <<28061, 24866>>, <<64997, 14348>>,
     <<42174, 59972>>, <<19422, 53161>>, <<63163, 19296>>, <<48831, 48240>>,
     <<10395, 32454>>, <<60065, 10234>>, <<54511, 12421>>, <<1160, 7429>>,
     <<55764, 53305>>, <<59099, 39397>>, <<8098, 31992>>, <<50348, 22117>>,
     <<62505, 8772>>, <<17194, 65431>>, <<43924, 9127>>, <<64659, 41017>>,
     <<25947, 22979>>, <<36620, 52370>>, <<65519, 62589>>, <<34180, 24017>>,
     <<28584, 32335>>, <<65068, 59104>>, <<41729, 17172>>, <<19976, 4513>>,
     <<63315, 32386>>, <<48442, 62005>>, <<10967, 53947>>, <<60294, 54161>>>>

\* per-round left-rotation amounts
md5_S ==
  <<7, 12, 17, 22, 7, 12, 17, 22, 7, 12, 17, 22, 7, 12, 17, 22,
     5, 9, 14, 20, 5, 9, 14, 20, 5, 9, 14, 20, 5, 9, 14, 20,
     4, 11, 16, 23, 4, 11, 16, 23, 4, 11, 16, 23, 4, 11, 16, 23,
     6, 10, 15, 21, 6, 10, 15, 21, 6, 10, 15, 21, 6, 10, 15, 21>>

RECURSIVE And16(_, _, _)
\* bitwise AND of the low n bits of a and b
And16(a, b, n) ==
  IF n = 0 THEN 0
  ELSE ((a % 2) * (b % 2)) + (2 * And16(a \div 2, b \div 2, n - 1))

Not16(a) == 65535 - a
Or16(a, b) == a + b - And16(a, b, 16)
Xor16(a, b) == a + b - (2 * And16(a, b, 16))

And32(x, y) == <<And16(x[1], y[1], 16), And16(x[2], y[2], 16)>>
Or32(x, y) == <<Or16(x[1], y[1]), Or16(x[2], y[2])>>
Xor32(x, y) == <<Xor16(x[1], y[1]), Xor16(x[2], y[2])>>
Not32(x) == <<Not16(x[1]), Not16(x[2])>>

\* addition modulo 2^32
Add32(x, y) ==
  LET lo == x[2] + y[2]
      hi == x[1] + y[1] + (lo \div 65536)
  IN  <<hi % 65536, lo % 65536>>

RECURSIVE Pow2(_)
Pow2(n) == IF n = 0 THEN 1 ELSE 2 * Pow2(n - 1)

\* rotation to the left by s bits, 0 < s < 32
Rotl32(x, s) ==
  LET y == IF s >= 16 THEN <<x[2], x[1]>> ELSE x
      r == s % 16
      p == Pow2(r)
      q == Pow2(16 - r)
  IN  IF r = 0 THEN y
      ELSE <<((y[1] * p) % 65536) + (y[2] \div q),
             ((y[2] * p) % 65536) + (y[1] \div q)>>

\* str.encode(): UTF-8, for code points below U+0800
RECURSIVE utf8_encode(_)
utf8_encode(s) ==
  IF s = <<>> THEN <<>>
  ELSE LET c == Head(s)
       IN  (IF c < 128 THEN <<c>>
            ELSE <<192 + (c \div 64), 128 + (c % 64)>>) \o utf8_encode(Tail(s))

RECURSIVE Zeros(_)
Zeros(n) == IF n = 0 THEN <<>> ELSE <<0>> \o Zeros(n - 1)

\* the message followed by 0x80, zeros up to 56 modulo 64, and its length in
\* bits as a 64-bit little-endian integer (messages shorter than 8 KiB)
md5_pad(bytes) ==
  LET n == Len(bytes)
      z == (119 - (n % 64)) % 64
      bits == 8 * n
  IN  bytes \o <<128>> \o Zeros(z)
        \o <<bits % 256, bits \div 256>> \o Zeros(6)

\* word j (0..15) of block k (0..) of the padded message, little-endian
md5_word(p, k, j) ==
  LET o == (64 * k) + (4 * j)
  IN  <<p[o + 3] + (256 * p[o + 4]), p[o + 1] + (256 * p[o + 2])>>

\* one of the 64 operations of a block: st = <<A, B, C, D>>, i = 0..63
md5_step(st, i, p, k) ==
  LET A == st[1]
      B == st[2]
      C == st[3]
      D == st[4]
      F == IF i < 16 THEN Or32(And32(B, C), And32(Not32(B), D))
           ELSE IF i < 32 THEN Or32(And32(D, B), And32(Not32(D), C))
           ELSE IF i < 48 THEN Xor32(B, Xor32(C, D))
           ELSE Xor32(C, Or32(B, Not32(D)))
      g == IF i < 16 THEN i
           ELSE IF i < 32 THEN ((5 * i) + 1) % 16
           ELSE IF i < 48 THEN ((3 * i) + 5) % 16
           ELSE (7 * i) % 16
      T == Add32(Add32(F, A), Add32(md5_K[i + 1], md5_word(p, k, g)))
  IN  <<D, Add32(B, Rotl32(T, md5_S[i + 1])), B, C>>

RECURSIVE md5_rounds(_, _, _, _)
\* the 64 operations of a block, from operation i on (Len(st) is read so
\* that st is computed before the next operation is entered)
md5_rounds(st, i, p, k) ==
  IF i = 64 \/ Len(st) # 4 THEN st
  ELSE md5_rounds(md5_step(st, i, p, k), i + 1, p, k)

RECURSIVE md5_blocks(_, _, _)
md5_blocks(st, p, k) ==
  IF 64 * k >= Len(p) THEN st
  ELSE LET r == md5_rounds(st, 0, p, k)
       IN  md5_blocks(<<Add32(st[1], r[1]), Add32(st[2], r[2]),
                        Add32(st[3], r[3]), Add32(st[4], r[4])>>, p, k + 1)

\* the initial chaining value 67452301 efcdab89 98badcfe 10325476
md5_init == <<<<26437, 8961>>, <<61389, 43913>>, <<39098, 56574>>, <<4146, 21622>>>>

word_bytes(w) == <<w[2] % 256, w[2] \div 256, w[1] % 256, w[1] \div 256>>

\* hashlib.md5(bytes).digest(): 16 bytes
md5_digest(bytes) ==
  LET st == md5_blocks(md5_init, md5_pad(bytes), 0)
  IN  word_bytes(st[1]) \o word_bytes(st[2]) \o word_bytes(st[3]) \o word_bytes(st[4])

RECURSIVE hex(_)
\* .hexdigest(): two lower-case hexadecimal digits per byte
hex(bytes) ==
  IF bytes = <<>> THEN <<>>
  ELSE <<HexDigits[(Head(bytes) \div 16) + 1], HexDigits[(Head(bytes) % 16) + 1]>>
         \o hex(Tail(bytes))

md5_hexdigest(s) == hex(md5_digest(utf8_encode(s)))

(***************************************************************************)
(* Python built-ins and library calls the program uses.                    *)
(***************************************************************************)

\* dict.get(key, default)
dict_get(ep, key, default) == IF key \in DOMAIN ep THEN ep[key] ELSE default

\* truth value of a str: the empty string (like None) is false
truthy(s) == s # <<>>

RECURSIVE str(_)
\* str(n) of an integer n >= 0: its decimal digits
str(n) ==
  IF n < 10 THEN <<DecDigits[n + 1]>>
  ELSE str(n \div 10) \o <<DecDigits[(n % 10) + 1]>>

RECURSIVE str_lt(_, _)
\* a < b on str: by code point, a proper prefix first
str_lt(a, b) ==
  IF b = <<>> THEN FALSE
  ELSE IF a = <<>> THEN TRUE
  ELSE IF Head(a) # Head(b) THEN Head(a) < Head(b)
  ELSE str_lt(Tail(a), Tail(b))

\* os.path.join(dir, name): an absolute name replaces dir
os_path_join(dir, name) ==
  IF name # <<>> /\ Head(name) = Head(PathSep) THEN name
  ELSE dir \o PathSep \o name

\* os.path.exists(path), fs the directory tree: path |-> size in bytes
os_path_exists(fs, path) == path \in DOMAIN fs

get_file_size(fs, filepath) == fs[filepath]

\* datetime.now(timezone.utc).strftime("%a, %d %b %Y %H:%M:%S +0000"), the
\* clock t counting the seconds of one minute
strftime(t) ==
  ClockPrefix \o <<DecDigits[((t \div 10) % 6) + 1], DecDigits[(t % 10) + 1]>>
    \o ClockSuffix

(***************************************************************************)
(* generate_guid and the pieces of generate_rss.                           *)
(***************************************************************************)

\* the file names of the input corpora
Filenames == {FileA, FileB, CollA, CollB}

\* hashlib.md5(name.encode()).hexdigest() of each of them, computed once
md5_of == [name \in Filenames |-> md5_hexdigest(name)]

\* lines 49-51
generate_guid(ep) == md5_of[ep["filename"]]

\* the sort key of line 94: lambda x: x.get("date", "")
date_key(ep) == dict_get(ep, "date", <<>>)

RECURSIVE insert_desc(_, _)
\* x put into the descending list s behind every element whose key is not
\* smaller than its own (x came later in the input: the sort is stable)
insert_desc(x, s) ==
  IF s = <<>> THEN <<x>>
  ELSE IF str_lt(date_key(Head(s)), date_key(x)) THEN <<x>> \o s
  ELSE <<Head(s)>> \o insert_desc(x, Tail(s))

RECURSIVE insert_asc(_, _)
insert_asc(x, s) ==
  IF s = <<>> THEN <<x>>
  ELSE IF str_lt(date_key(x), date_key(Head(s))) THEN <<x>> \o s
  ELSE <<Head(s)>> \o insert_asc(x, Tail(s))

RECURSIVE sorted_ascending(_)
\* defect: reverse=True left out, the oldest date first
sorted_ascending(eps) ==
  IF eps = <<>> THEN <<>>
  ELSE insert_asc(eps[Len(eps)], sorted_ascending(SubSeq(eps, 1, Len(eps) - 1)))

RECURSIVE sorted_unique(_)
\* defect: records that occur twice are kept once
sorted_unique(eps) ==
  IF eps = <<>> THEN <<>>
  ELSE LET front == SubSeq(eps, 1, Len(eps) - 1)
       IN  IF \E i \in 1..Len(front) : front[i] = eps[Len(eps)]
             THEN sorted_unique(front)
             ELSE insert_desc(eps[Len(eps)], sorted_unique(front))

RECURSIVE sorted_episodes(_)
\* sorted(episodes, key=lambda x: x.get("date", ""), reverse=True)
sorted_episodes(eps) ==
  IF eps = <<>> THEN <<>>
  ELSE insert_desc(eps[Len(eps)], sorted_episodes(SubSeq(eps, 1, Len(eps) - 1)))

\* SubElement(parent, tag).text = text
text_element(tag, text) == [tag |-> tag, text |-> text]

\* the elements of the channel that precede the items (lines 65-91)
channel_metadata ==
  << text_element("title", PODCAST.title),
     text_element("description", PODCAST.description),
     text_element("language", PODCAST.language),
     text_element("link", PODCAST.website),
     [tag |-> "atom:link",
      attrs |-> [href |-> PODCAST.base_url \o FeedXmlSuffix, rel |-> RelSelf,
                 type |-> RssXmlType]],
     text_element("itunes:author", PODCAST.author),
     text_element("itunes:summary", PODCAST.description),
     text_element("itunes:explicit", PODCAST.explicit),
     [tag |-> "itunes:owner",
      children |-> << text_element("itunes:name", PODCAST.author),
                      text_element("itunes:email", PODCAST.email) >>],
     [tag |-> "itunes:image", attrs |-> [href |-> PODCAST.image]],
     [tag |-> "itunes:category",
      attrs |-> [text |-> PODCAST.category],
      children |-> << [tag |-> "itunes:category",
                       attrs |-> [text |-> PODCAST.subcategory]] >>] >>

\* defect: the file is looked up in the working directory, not in episodes/
episode_path_nodir(ep) == ep["filename"]

\* line 95: os.path.join(EPISODES_DIR, ep["filename"])
episode_path(ep) == os_path_join(EPISODES_DIR, ep["filename"])

\* line 95: ep["filename"] raises KeyError
KeyErrorFilename(ep) == "filename" \notin DOMAIN ep

\* line 101: ep["title"] raises KeyError
KeyErrorTitle(ep) == "title" \notin DOMAIN ep

\* defect: the field is tested for presence, not for a non-empty value
has_duration_key(ep) == "duration" \in DOMAIN ep

\* line 107: if ep.get("duration")
has_duration(ep) == truthy(dict_get(ep, "duration", <<>>))

\* defect: the publication date is always the time of the run
item_pubDate_now(ep, t) == strftime(t)

\* line 111: ep.get("date", <now, formatted>)
item_pubDate(ep, t) == dict_get(ep, "date", strftime(t))

\* lines 113-116
enclosure(ep, fs) ==
  [tag |-> "enclosure",
   attrs |-> [url |-> PODCAST.base_url \o EpisodesUrlPart \o ep["filename"],
              length |-> str(get_file_size(fs, episode_path(ep))),
              type |-> AudioMpeg]]

\* lines 100-116: the item element of one episode
item_element(ep, fs, t) ==
  [tag |-> "item",
   children |->
     << text_element("title", ep["title"]),
        text_element("description", dict_get(ep, "description", <<>>)),
        text_element("itunes:summary", dict_get(ep, "description", <<>>)),
        text_element("itunes:author", PODCAST.author),
        text_element("itunes:explicit", PODCAST.explicit) >>
     \o (IF has_duration(ep)
         THEN << text_element("itunes:duration", ep["duration"]) >>
         ELSE << >>)
     \o << text_element("guid", generate_guid(ep)),
           text_element("pubDate", item_pubDate(ep, t)),
           enclosure(ep, fs) >>]

\* defect: the path is left out of the message
warning_line_nopath(filepath) == WarningPrefix \o WarningSuffix

\* line 97: the warning printed for a missing file
warning_line(filepath) == WarningPrefix \o filepath \o WarningSuffix

\* lines 56-62 and 119-121: the rss element around the channel, serialized
\* by toprettyxml(indent="  ", encoding="UTF-8")
pretty_rss(its) ==
  [encoding |-> "UTF-8", indent |-> "  ",
   root |-> [tag |-> "rss",
             attrs |-> [version |-> RssVersion, xmlns_itunes |-> XmlnsItunes,
                        xmlns_content |-> XmlnsContent, xmlns_atom |-> XmlnsAtom],
             children |-> << [tag |-> "channel",
                              children |-> channel_metadata \o its] >>]]

(***************************************************************************)
(* main.                                                                   *)
(***************************************************************************)

\* defect: only a missing list (None) counts as empty
is_none(eps) == FALSE

\* line 126: not episodes
is_empty(eps) == eps = <<>>

\* line 135
summary_line(eps) == SummaryPrefix \o str(Len(eps)) \o SummarySuffix

\* line 136
feed_url_line == FeedUrlPrefix \o PODCAST.base_url \o FeedXmlSuffix

\* defect: feed.xml is opened before the feed is generated
main_next_open_first(stmt) ==
  CASE stmt = "load" -> "check"
    [] stmt = "check" -> "open"
    [] stmt = "open" -> "generate"
    [] stmt = "generate" -> "write"
    [] stmt = "write" -> "summary"
    [] stmt = "summary" -> "done"

\* the order of the statements of main: which statement follows which
main_next(stmt) ==
  CASE stmt = "load" -> "check"
    [] stmt = "check" -> "generate"
    [] stmt = "generate" -> "open"
    [] stmt = "open" -> "write"
    [] stmt = "write" -> "summary"
    [] stmt = "summary" -> "done"

(***************************************************************************)
(* Bounds of the model.                                                    *)
(***************************************************************************)
\* the longest episodes.json array
MaxLen == 2
\* the longest array of the sorting corpus
MaxSortLen == 3
\* the last value of the clock
MaxClock == 1
\* how many times the program is run in a row
MaxRuns == 2

(***************************************************************************)
(* The state.                                                              *)
(***************************************************************************)
VARIABLES
  metaFile,    \* episodes.json: absent, not JSON, or a JSON array of objects
  disk,        \* the files below the working directory: path |-> size
  feedFile,    \* feed.xml: whether it exists and the chunks written to it
  now,         \* the clock
  pc,          \* the statement of main (or generate_rss) to execute next
  episodes,    \* main: episodes
  order,       \* generate_rss: the sorted list the for loop iterates over
  idx,         \* generate_rss: the position of the loop in order
  items,       \* generate_rss: the item elements appended to the channel
  feed,        \* main: feed, << >> until generate_rss has returned
  stdout,      \* the lines printed by this run
  feedBefore,  \* feed.xml as it was when this run started
  runs         \* the number of this run

vars == <<metaFile, disk, feedFile, now, pc, episodes, order, idx, items, feed,
          stdout, feedBefore, runs>>

inputs == <<metaFile, disk>>
locals == <<episodes, order, idx, items, feed>>

\* an optional field: << >> when the record lacks it, <<v>> when it has it
Optional(values) == {<< >>} \cup {<<v>> : v \in values}

\* the JSON object with the fields given
episode_record(fn, ti, de, du, da) ==
  LET opt(k) == CASE k = "filename" -> fn
                  [] k = "title" -> ti
                  [] k = "description" -> de
                  [] k = "duration" -> du
                  [] k = "date" -> da
      present == {k \in {"filename", "title", "description", "duration", "date"} :
                    opt(k) # << >>}
  IN  [k \in present |-> opt(k)[1]]

Records(FN, TI, DE, DU, DA) ==
  {episode_record(fn, ti, de, du, da) :
     fn \in FN, ti \in TI, de \in DE, du \in DU, da \in DA}

\* the arrays of at most n records of R
Arrays(R, n) == UNION {[1..k -> R] : k \in 0..n}

MetaFiles(R, n) == {[kind |-> "array", value |-> a] : a \in Arrays(R, n)}

\* the states of episodes/: the files of always exist, any of the files of
\* maybe may exist, each with any of the sizes
Disks(always, maybe, sizes) ==
  UNION {[{os_path_join(EPISODES_DIR, f) : f \in always \cup present} -> sizes] :
           present \in SUBSET maybe}

NoFeedFile == [exists |-> FALSE, data |-> << >>]

\* a feed.xml left by an earlier run, over other episodes
OldFeedFile ==
  [exists |-> TRUE,
   data |-> << pretty_rss(<< [tag |-> "item",
                              children |-> <<text_element("title", OldTitle)>>] >>) >>]

InitWith(metas, disks, clocks) ==
  /\ metaFile \in metas
  /\ disk \in disks
  /\ feedFile \in {NoFeedFile, OldFeedFile}
  /\ now \in clocks
  /\ pc = "load"
  /\ episodes = << >>
  /\ order = << >>
  /\ idx = 1
  /\ items = << >>
  /\ feed = << >>
  /\ stdout = << >>
  /\ feedBefore = feedFile
  /\ runs = 1

(***************************************************************************)
(* The steps of the program.                                               *)
(***************************************************************************)

\* line 125 with load_episodes (lines 36-41); json.load raises on text that
\* is not JSON
main_load ==
  /\ pc = "load"
  /\ IF metaFile.kind = "absent"
       THEN episodes' = << >> /\ pc' = main_next("load")
       ELSE IF metaFile.kind = "malformed"
         THEN pc' = "failed" /\ UNCHANGED episodes
         ELSE episodes' = metaFile.value /\ pc' = main_next("load")
  /\ UNCHANGED <<inputs, feedFile, now, order, idx, items, feed, stdout,
                 feedBefore, runs>>

\* lines 126-128
main_check ==
  /\ pc = "check"
  /\ IF is_empty(episodes)
       THEN stdout' = Append(stdout, NoEpisodesLine) /\ pc' = "empty"
       ELSE pc' = main_next("check") /\ UNCHANGED stdout
  /\ UNCHANGED <<inputs, feedFile, now, locals, feedBefore, runs>>

\* lines 56-94: generate_rss up to the head of the for loop
rss_sort ==
  /\ pc = "generate"
  /\ order' = sorted_episodes(episodes)
  /\ idx' = 1
  /\ items' = << >>
  /\ pc' = "loop"
  /\ UNCHANGED <<inputs, feedFile, now, episodes, feed, stdout, feedBefore, runs>>

\* lines 94-116: one iteration of the for loop
rss_loop ==
  /\ pc = "loop"
  /\ idx <= Len(order)
  /\ LET ep == order[idx]
     IN  IF KeyErrorFilename(ep)
           THEN pc' = "failed" /\ UNCHANGED <<idx, items, stdout>>
           ELSE IF ~os_path_exists(disk, episode_path(ep))
             THEN /\ stdout' = Append(stdout, warning_line(episode_path(ep)))
                  /\ idx' = idx + 1
                  /\ UNCHANGED <<pc, items>>
             ELSE IF KeyErrorTitle(ep)
               THEN pc' = "failed" /\ UNCHANGED <<idx, items, stdout>>
               ELSE /\ items' = Append(items, item_element(ep, disk, now))
                    /\ idx' = idx + 1
                    /\ UNCHANGED <<pc, stdout>>
  /\ UNCHANGED <<inputs, feedFile, now, episodes, order, feed, feedBefore, runs>>

\* lines 119-121 and the return to main (line 130)
rss_pretty ==
  /\ pc = "loop"
  /\ idx > Len(order)
  /\ feed' = <<pretty_rss(items)>>
  /\ pc' = main_next("generate")
  /\ UNCHANGED <<inputs, feedFile, now, episodes, order, idx, items, stdout,
                 feedBefore, runs>>

\* line 132: open("feed.xml", "wb") creates the file or truncates it
main_open ==
  /\ pc = "open"
  /\ feedFile' = [exists |-> TRUE, data |-> << >>]
  /\ pc' = main_next("open")
  /\ UNCHANGED <<inputs, now, locals, stdout, feedBefore, runs>>

\* line 133: f.write(feed), and the file is closed
main_write ==
  /\ pc = "write"
  /\ feedFile' = [feedFile EXCEPT !.data = @ \o feed]
  /\ pc' = main_next("write")
  /\ UNCHANGED <<inputs, now, locals, stdout, feedBefore, runs>>

\* lines 135-136
main_summary ==
  /\ pc = "summary"
  /\ stdout' = stdout \o <<summary_line(episodes), feed_url_line>>
  /\ pc' = main_next("summary")
  /\ UNCHANGED <<inputs, feedFile, now, locals, feedBefore, runs>>

Terminated == pc \in {"done", "empty", "failed"}

\* the operator runs the program again, on the same inputs
Rerun ==
  /\ Terminated
  /\ runs < MaxRuns
  /\ runs' = runs + 1
  /\ feedBefore' = feedFile
  /\ pc' = "load"
  /\ episodes' = << >>
  /\ order' = << >>
  /\ idx' = 1
  /\ items' = << >>
  /\ feed' = << >>
  /\ stdout' = << >>
  /\ UNCHANGED <<inputs, feedFile, now>>

\* time passes
Tick ==
  /\ now < MaxClock
  /\ now' = now + 1
  /\ UNCHANGED <<inputs, feedFile, pc, locals, stdout, feedBefore, runs>>

Run ==
  \/ main_load
  \/ main_check
  \/ rss_sort
  \/ rss_loop
  \/ rss_pretty
  \/ main_open
  \/ main_write
  \/ main_summary

(***************************************************************************)
(* The specifications: the same program over different input corpora.      *)
(***************************************************************************)

\* records that may lack the filename or the title, files that may be missing
Init ==
  InitWith({[kind |-> "absent"], [kind |-> "malformed"]}
             \cup MetaFiles(Records(Optional({FileA, FileB}), Optional({TitlePilot}),
                                    {<< >>}, {<< >>}, Optional({DateWed})), MaxLen),
           Disks({}, {FileA, FileB}, {1024}), {0})

Next == Run

Spec == Init /\ [][Next]_vars

\* complete records over dated, undated and empty-dated episodes
InitSort ==
  InitWith(MetaFiles(Records({<<FileA>>, <<FileB>>}, {<<TitlePilot>>}, {<< >>}, {<< >>},
                             Optional({<< >>, DateWed, DateThu})), MaxSortLen),
           Disks({FileA}, {FileB}, {1024}), {0})

SpecSort == InitSort /\ [][Next]_vars

\* complete records with and without a description and a duration
InitDuration ==
  InitWith(MetaFiles(Records({<<FileA>>, <<FileB>>}, {<<TitlePilot>>},
                             Optional({DescText}), Optional({<< >>, DurationText}),
                             {<<DateWed>>}), MaxLen),
           Disks({FileA}, {FileB}, {0, 1024}), {0})

SpecDuration == InitDuration /\ [][Next]_vars

\* the program run several times on the same inputs while the clock advances
InitRerun ==
  InitWith(MetaFiles(Records({<<FileA>>, <<FileB>>}, {<<TitlePilot>>}, {<< >>}, {<< >>},
                             Optional({DateWed, DateThu})), MaxLen),
           Disks({}, {FileA, FileB}, {1024}), {0})

NextRerun == Run \/ Rerun \/ Tick

SpecRerun == InitRerun /\ [][NextRerun]_vars

\* file names that differ and titles that differ, among them two file names
\* with the same MD5 digest
InitGuid ==
  InitWith(MetaFiles(Records({<<FileA>>, <<CollA>>, <<CollB>>},
                             {<<TitlePilot>>, <<TitleOther>>}, {<< >>}, {<< >>},
                             {<<DateWed>>}), MaxLen),
           Disks({}, {FileA, CollA, CollB}, {1024}), {0})

SpecGuid == InitGuid /\ [][Next]_vars

(***************************************************************************)
(* Reading a feed, the input and the console.                              *)
(***************************************************************************)

\* the children of an element that carry the given tag
ChildrenTagged(el, tag) == SelectSeq(el.children, LAMBDA c : c.tag = tag)

\* the item elements of a serialized feed
ItemsOf(doc) == ChildrenTagged(doc.root.children[1], "item")

ItemText(it, tag) == ChildrenTagged(it, tag)[1].text
ItemUrl(it) == ChildrenTagged(it, "enclosure")[1].attrs.url

\* the download URL of a file name
UrlOf(name) == PODCAST.base_url \o EpisodesUrlPart \o name

\* record r names a file and that file is below episodes/
FileOnDisk(r) ==
  /\ "filename" \in DOMAIN r
  /\ os_path_join(EPISODES_DIR, r["filename"]) \in DOMAIN disk

\* record r names a file and that file is not below episodes/
FileMissing(r) ==
  /\ "filename" \in DOMAIN r
  /\ os_path_join(EPISODES_DIR, r["filename"]) \notin DOMAIN disk

\* the records the loop has been through, and those of them it kept
Processed == SubSeq(order, 1, idx - 1)
Kept == SelectSeq(Processed, FileOnDisk)

(***************************************************************************)
(* C1: the feed generate_rss returns holds one item for every input record *)
(* whose file exists under episodes/ (a record listed twice gives two),    *)
(* and none for a record whose file is missing.                            *)
(***************************************************************************)
C1_ItemPerExistingFile ==
  feed # << >> =>
    LET its == ItemsOf(feed[1])
    IN  /\ Len(its) = Len(SelectSeq(episodes, FileOnDisk))
        /\ \A name \in Filenames :
             Len(SelectSeq(its, LAMBDA it : ItemUrl(it) = UrlOf(name)))
               = Len(SelectSeq(episodes, LAMBDA r : FileOnDisk(r) /\ r["filename"] = name))

\* a feed over two records, one with its file and one without
C1_Witness ==
  /\ feed # << >>
  /\ Len(episodes) = 2
  /\ FileOnDisk(episodes[1])
  /\ FileMissing(episodes[2])
  /\ Len(ItemsOf(feed[1])) = 1

\* a feed over the same record listed twice
C1_WitnessTwice ==
  /\ feed # << >>
  /\ Len(episodes) = 2
  /\ episodes[1] = episodes[2]
  /\ Len(ItemsOf(feed[1])) = 2

(***************************************************************************)
(* C2: the items come in descending lexicographic order of their records'  *)
(* date strings, the records without a date behind every record with a     *)
(* non-empty date.  For the dates "Wed, 01 Jan 2025 00:00:00 +0000" and     *)
(* "Thu, 02 Jan 2025 00:00:00 +0000" and one record without a date that     *)
(* order is: the Wednesday (1 January), the Thursday (2 January), the      *)
(* undated record -- "W" is greater than "T".                              *)
(***************************************************************************)

\* the sequence b holds the elements of a, as often as a holds them
IsPermutation(a, b) ==
  /\ Len(a) = Len(b)
  /\ \A i \in 1..Len(a) :
       Len(SelectSeq(a, LAMBDA r : r = a[i])) = Len(SelectSeq(b, LAMBDA r : r = a[i]))

\* the k-th item is the item of the k-th record kept
ItemsFollowKept ==
  /\ Len(items) = Len(Kept)
  /\ \A k \in 1..Len(Kept) :
       /\ ItemUrl(items[k]) = UrlOf(Kept[k]["filename"])
       /\ "date" \in DOMAIN Kept[k] => ItemText(items[k], "pubDate") = Kept[k]["date"]

DescendingDates(recs) ==
  \A i, j \in 1..Len(recs) :
    i < j => ~str_lt(date_key(recs[i]), date_key(recs[j]))

UndatedLast(recs) ==
  \A i, j \in 1..Len(recs) :
    (i < j /\ "date" \notin DOMAIN recs[i]) => date_key(recs[j]) = << >>

ItemsInDateOrder ==
  /\ pc \in {"loop", "open", "write", "summary", "done"} => IsPermutation(episodes, order)
  /\ ItemsFollowKept
  /\ DescendingDates(Kept)
  /\ UndatedLast(Kept)
  /\ feed # << >> => ItemsOf(feed[1]) = items

\* the input of the example, in any order, all files present, feed returned
ExampleRendered ==
  /\ feed # << >>
  /\ Len(episodes) = 3
  /\ \A i \in 1..3 : FileOnDisk(episodes[i])
  /\ \E i, j, k \in 1..3 :
       /\ dict_get(episodes[i], "date", << >>) = DateWed
       /\ dict_get(episodes[j], "date", << >>) = DateThu
       /\ "date" \notin DOMAIN episodes[k]

\* the publication dates of the items of a feed, in document order
PubDates(doc) ==
  [k \in 1..Len(ItemsOf(doc)) |-> ItemText(ItemsOf(doc)[k], "pubDate")]

C2_DescendingLexicographic ==
  /\ ItemsInDateOrder
  /\ ExampleRendered => PubDates(feed[1]) = <<DateWed, DateThu, strftime(now)>>

\* the claim as stated: in the example the Thursday (2 January) comes first
C2_ExampleNewestFirst ==
  /\ ItemsInDateOrder
  /\ ExampleRendered => PubDates(feed[1]) = <<DateThu, DateWed, strftime(now)>>

C2_Witness == ExampleRendered /\ pc = "done"

(***************************************************************************)
(* C3: with episodes.json absent or holding an empty array, main prints    *)
(* the "No episodes found" line and ends; feed.xml is neither created nor  *)
(* truncated nor rewritten.                                                *)
(***************************************************************************)
C3_EmptyInputWritesNothing ==
  (\/ metaFile.kind = "absent"
   \/ (metaFile.kind = "array" /\ Len(metaFile.value) = 0))
    => /\ feedFile = feedBefore
       /\ pc \in {"load", "check", "empty"}
       /\ pc = "empty" => stdout = <<NoEpisodesLine>>

\* an empty array, the run over, the feed.xml of an earlier run still there
C3_Witness ==
  /\ metaFile.kind = "array"
  /\ pc = "empty"
  /\ stdout = <<NoEpisodesLine>>
  /\ feedFile = OldFeedFile

(***************************************************************************)
(* C4: a run that ends in an uncaught failure (episodes.json is not JSON,  *)
(* a missing filename or title is accessed) leaves feed.xml as it was;     *)
(* the file is touched only after generate_rss has returned the document.  *)
(***************************************************************************)
C4_FailureLeavesFeedUntouched ==
  /\ pc = "failed" => feedFile = feedBefore
  /\ feedFile # feedBefore => feed # << >>

\* the failure comes after an item has been built, over an older feed.xml
C4_Witness ==
  /\ pc = "failed"
  /\ Len(items) > 0
  /\ feedFile = OldFeedFile

(***************************************************************************)
(* C5: a missing audio file never ends the run.  Each record whose file    *)
(* is missing gets one line "WARNING: <path> not found, skipping" with its *)
(* path, a record whose file exists gets none, and the records behind it   *)
(* are processed: an item for each whose file exists.                      *)
(***************************************************************************)
IsWarning(line) ==
  /\ Len(line) >= Len(WarningPrefix)
  /\ SubSeq(line, 1, Len(WarningPrefix)) = WarningPrefix

C5_WarningPerMissingFile ==
  /\ \A name \in Filenames :
       Len(SelectSeq(stdout, LAMBDA l : l = WarningPrefix \o os_path_join(EPISODES_DIR, name)
                                      \o WarningSuffix))
         = Len(SelectSeq(Processed, LAMBDA r : FileMissing(r) /\ r["filename"] = name))
  /\ Len(SelectSeq(stdout, IsWarning)) = Len(SelectSeq(Processed, FileMissing))
  /\ Len(items) = Len(SelectSeq(Processed, FileOnDisk))
  /\ (pc = "failed" /\ idx <= Len(order)) => ~FileMissing(order[idx])
  /\ pc \in {"open", "write", "summary", "done"}
       => Processed = order /\ IsPermutation(episodes, order)
  /\ (metaFile.kind = "array"
        /\ \A i \in 1..Len(metaFile.value) :
             {"filename", "title"} \subseteq DOMAIN metaFile.value[i])
       => pc # "failed"

\* the first record processed is skipped, the second becomes an item
C5_Witness ==
  /\ pc = "done"
  /\ Len(order) = 2
  /\ FileMissing(order[1])
  /\ FileOnDisk(order[2])
  /\ Len(items) = 1
  /\ Len(SelectSeq(stdout, IsWarning)) = 1

(***************************************************************************)
(* C6: two runs over the same episodes.json and the same episodes/ in      *)
(* which every record has a date write the same feed.xml; the clock shows  *)
(* in the output only through a record without a date (one whose file      *)
(* exists: the others are not in the feed).                                *)
(***************************************************************************)
AllDated == \A i \in 1..Len(episodes) : "date" \in DOMAIN episodes[i]

C6_RerunByteIdentical ==
  (runs > 1 /\ pc = "done")
    => /\ AllDated => feedFile = feedBefore
       /\ feedFile # feedBefore
            => \E i \in 1..Len(episodes) :
                 FileOnDisk(episodes[i]) /\ "date" \notin DOMAIN episodes[i]

\* a second run, later than the first, that wrote a feed with items
C6_Witness ==
  /\ runs > 1
  /\ pc = "done"
  /\ now > 0
  /\ AllDated
  /\ Len(items) > 0
  /\ feedFile = feedBefore

\* a second run over a record without a date: the feed differs
C6_UndatedDiffers ==
  /\ runs > 1
  /\ pc = "done"
  /\ feedFile # feedBefore

(***************************************************************************)
(* C7: an item has an itunes:duration element exactly when its record has  *)
(* a duration that is not empty; there is never an empty duration element. *)
(***************************************************************************)
C7_DurationIffNonEmpty ==
  /\ Len(items) = Len(Kept)
  /\ feed # << >> => ItemsOf(feed[1]) = items
  /\ \A k \in 1..Len(Kept) :
       LET r == Kept[k]
           d == ChildrenTagged(items[k], "itunes:duration")
       IN  /\ ItemUrl(items[k]) = UrlOf(r["filename"])
           /\ Len(d) > 0 <=> ("duration" \in DOMAIN r /\ r["duration"] # << >>)
           /\ Len(d) > 0 => (Len(d) = 1 /\ d[1].text = r["duration"] /\ d[1].text # << >>)

\* a feed with the item of a record whose duration is the empty string
C7_Witness ==
  /\ pc = "done"
  /\ \E k \in 1..Len(Kept) :
       /\ "duration" \in DOMAIN Kept[k]
       /\ Kept[k]["duration"] = << >>
       /\ Len(ChildrenTagged(items[k], "itunes:duration")) = 0

(***************************************************************************)
(* C8: two records get the same guid exactly when they have the same       *)
(* filename, whatever their other fields; so two items of a feed share a   *)
(* guid exactly when their records share a filename.                       *)
(***************************************************************************)
C8_GuidIffFilename ==
  /\ \A i, j \in 1..Len(episodes) :
       generate_guid(episodes[i]) = generate_guid(episodes[j])
         <=> episodes[i]["filename"] = episodes[j]["filename"]
  /\ feed # << >> =>
       \A i, j \in 1..Len(ItemsOf(feed[1])) :
         ItemText(ItemsOf(feed[1])[i], "guid") = ItemText(ItemsOf(feed[1])[j], "guid")
           <=> ItemUrl(ItemsOf(feed[1])[i]) = ItemUrl(ItemsOf(feed[1])[j])

\* the half of C8 that holds: the same filename gives the same guid
GuidDependsOnFilenameOnly ==
  /\ \A i, j \in 1..Len(episodes) :
       episodes[i]["filename"] = episodes[j]["filename"]
         => generate_guid(episodes[i]) = generate_guid(episodes[j])
  /\ \A k \in 1..Len(Kept) :
       k <= Len(items) => ItemText(items[k], "guid") = md5_hexdigest(Kept[k]["filename"])

(***************************************************************************)
(* C9: the N of the line "Generated feed.xml with N episodes" is the       *)
(* number of item elements written to feed.xml.                            *)
(***************************************************************************)
C9_SummaryCountsItems ==
  pc = "done"
    => stdout[Len(stdout) - 1]
         = SummaryPrefix \o str(Len(ItemsOf(feedFile.data[1]))) \o SummarySuffix

(***************************************************************************)
(* C10: a record without the filename field, or without the title field    *)
(* while its audio file exists, makes the run end in an uncaught failure   *)
(* with no feed produced, wherever it stands in the list and whatever its  *)
(* date; a record that lacks only the title and whose file is missing is   *)
(* skipped like any other record with a missing file.                      *)
(***************************************************************************)
Fatal(r) ==
  \/ "filename" \notin DOMAIN r
  \/ ("title" \notin DOMAIN r /\ FileOnDisk(r))

Incomplete(r) == "filename" \notin DOMAIN r \/ "title" \notin DOMAIN r

NoFeedAndFailure == feed = << >> /\ (Terminated => pc = "failed")

C10_FatalRecordFails ==
  metaFile.kind = "array" =>
    /\ (\E i \in 1..Len(metaFile.value) : Fatal(metaFile.value[i])) => NoFeedAndFailure
    /\ (\A i \in 1..Len(metaFile.value) : ~Fatal(metaFile.value[i])) => pc # "failed"

\* the claim as stated: any record without filename or title is fatal
C10_AnyIncompleteRecordFails ==
  metaFile.kind = "array" =>
    ((\E i \in 1..Len(metaFile.value) : Incomplete(metaFile.value[i])) => NoFeedAndFailure)

\* the run fails on the second record of the list, dated, file present,
\* title missing
C10_Witness ==
  /\ pc = "failed"
  /\ Len(episodes) = 2
  /\ ~Incomplete(episodes[1])
  /\ "title" \notin DOMAIN episodes[2]
  /\ "date" \in DOMAIN episodes[2]
  /\ FileOnDisk(episodes[2])
====
